---- MODULE Spec2Model ----
(***************************************************************************)
(* Model of the book-cover-previewer client: the Cover Registry            *)
(* (utils/coverData.js), the Persistence Gateway (utils/fileSystem.js, in  *)
(* its localStorage and its IndexedDB version), data initialisation        *)
(* (utils/dataInit.js), the upload handler (components/UploadComponent.jsx)*)
(* the useCoverImageUrl hook and the cover-to-geometry UV mapping           *)
(* (components/Book.jsx).                                                   *)
(*                                                                         *)
(* JavaScript runs handlers to completion; an await on a promise that is   *)
(* settled by a later event (FileReader.onload, an IndexedDB request, a    *)
(* timer) suspends the handler until that event, and every continuation    *)
(* that follows runs in the microtasks of that event.  One action of this  *)
(* model is one such event with all the microtasks it triggers.            *)
(***************************************************************************)
EXTENDS Integers, Sequences, FiniteSets, TLC

VARIABLES
  backend,    \* which fileSystem.js is built in: "ls" (localStorage blobs) or "idb"
  app,        \* "unloaded" before the page has loaded, "loaded" after App mounted
  metadata,   \* localStorage['bookCoverPreviewer_metadata'], the persisted record list
  blobs,      \* stored image data: id -> data URL (NoData when the id has no entry)
  nextId,     \* number of ids generateFileId has handed out
  inflight,   \* the addCover call suspended at `await saveUploadedFile`, or NoCall
  form,       \* UploadComponent state: spineWidthInches and pageCount inputs, isUploading
  last        \* the handler that ran in the latest step, its argument and its outcome

regVars == <<backend, app, metadata, blobs, nextId, inflight, form, last>>

VARIABLES
  mounted,    \* useCoverImageUrl: the component using the hook is mounted
  coverId,    \* the hook's argument in the latest render (NoId for null)
  url,        \* the hook's state, the value it returns
  current,    \* index in lookups of the latest effect that returned a cleanup, or 0
  lookups     \* one entry per effect run that started a lookup, with its cancelled flag

hookVars == <<mounted, coverId, url, current, lookups>>

VARIABLES
  mapIn,      \* the cover record and decoded image size given to the geometry mapping
  mapOut      \* the texture regions the latest render derived, or NoOutput

mapVars == <<mapIn, mapOut>>

VARIABLES
  libIn,      \* the arguments a caller has for a function of trimSizes.js or fileSystem.js
  libOut      \* the calls made so far, each with its argument and its return value

libVars == <<libIn, libOut>>

VARIABLES
  selectedCoverId, \* UI: the selected cover's id (coverAtom), NoId for null
  loading,         \* UI: the loading indicator is shown
  timers,          \* UI: the ids held by the pending 300 ms selection timers, oldest first
  uploadedCovers,  \* UI: the record list the thumbnails are rendered from
  uploadProgress,  \* UploadComponent: the progress shown, 0..100
  intervals        \* UploadComponent: how many simulated-progress intervals are running

uiVars == <<selectedCoverId, loading, timers, uploadedCovers, uploadProgress, intervals>>

vars == <<regVars, hookVars, mapVars, libVars, uiVars>>

(***************************************************************************)
(* Bounds of the model.                                                    *)
(***************************************************************************)
MaxCalls == 2        \* calls of the unit converter chained in one behaviour
MaxUploads == 1      \* ids generateFileId may hand out in one behaviour
LsQuota == 2         \* localStorage capacity, in entries (a record or a blob is one entry)
IdbQuota == 1        \* IndexedDB capacity, in stored images

(***************************************************************************)
(* JavaScript values.  A number is [t |-> "number", v |-> thousandths];    *)
(* NaN and undefined are values of their own.                              *)
(***************************************************************************)
Num(n) == [t |-> "number", v |-> n]
NaN == [t |-> "nan", v |-> 0]
Undefined == [t |-> "undefined", v |-> 0]

\* An <input type="number"> value: the empty string or the text of a number.
EmptyText == [t |-> "empty", v |-> 0]
NumText(n) == [t |-> "text", v |-> n]

\* parseFloat over input texts: '' parses to NaN, a numeric text to its value.
ParseFloat(x) == IF x.t \in {"text", "number"} THEN Num(x.v) ELSE NaN

\* Number.isFinite
IsFinite(x) == x.t = "number"

\* JSON.stringify followed by JSON.parse: NaN becomes null; an undefined
\* property is dropped and reads back as undefined.
Null == [t |-> "null", v |-> 0]
JsonValue(x) == IF x.t = "nan" THEN Null ELSE x
ValueFields == {"originalName", "externalUrl", "spineWidthInches", "dpi"}
JsonRecord(r) == [f \in DOMAIN r |-> IF f \in ValueFields THEN JsonValue(r[f]) ELSE r[f]]
JsonList(list) == [i \in DOMAIN list |-> JsonRecord(list[i])]

(***************************************************************************)
(* Identifiers.  generateFileId returns `cover_<Date.now()>_<random>`,     *)
(* modelled as the next unused number; a bundled cover has the id          *)
(* `bundled_<filename>`.                                                    *)
(***************************************************************************)
NumBundled == 1      \* image files under /public/covers in the build
CoverId(n) == [kind |-> "cover", n |-> n]
BundledId(n) == [kind |-> "bundled", n |-> n]
NoId == [kind |-> "none", n |-> 0]
generateFileId(n) == CoverId(n + 1)
UploadIds == {CoverId(n) : n \in 1..MaxUploads}
BundledIds == {BundledId(n) : n \in 1..NumBundled}
AllIds == UploadIds \cup BundledIds

(***************************************************************************)
(* Files offered to the upload handler.  size is in bytes.                 *)
(***************************************************************************)
MaxFileSize == 10 * 1024 * 1024
AllowedTypes == {"image/png", "image/jpg", "image/jpeg", "image/webp"}
File(size, type, decodable, content) ==
  [size |-> size, type |-> type, decodable |-> decodable, content |-> content]
Files ==
  { File(MaxFileSize, "image/png", TRUE, 1),
    File(2048, "image/jpeg", FALSE, 3),
    File(MaxFileSize + 1, "image/png", TRUE, 1),
    File(2048, "image/gif", TRUE, 2) }

\* validateFile: "valid" or the reason of the rejection (null is no file)
validateFileTypeFirst(file) ==
  IF file = Null THEN "No file selected"
  ELSE IF file.type \notin AllowedTypes THEN "File must be PNG, JPG, JPEG, or WebP"
  ELSE IF file.size > MaxFileSize THEN "File size must be less than 10MB"
  ELSE "valid"
validateFile(file) ==
  IF file = Null THEN "No file selected"
  ELSE IF file.size > MaxFileSize THEN "File size must be less than 10MB"
  ELSE IF file.type \notin AllowedTypes THEN "File must be PNG, JPG, JPEG, or WebP"
  ELSE "valid"

(***************************************************************************)
(* Cover records.                                                          *)
(***************************************************************************)
Str(k) == [t |-> "string", v |-> k]
Url(k) == [t |-> "url", v |-> k]

\* dataInit.js: the record seeded for a bundled image
BundledRecord(n) ==
  [id |-> BundledId(n), source |-> "bundled", originalName |-> Str(n),
   externalUrl |-> Url(n), spineWidthInches |-> Undefined, dpi |-> Undefined]
BundledEntries == [n \in 1..NumBundled |-> BundledRecord(n)]

\* coverData.js addCover: the record built for an upload
NewCover(id, file, options) ==
  [id |-> id, source |-> "uploaded", originalName |-> Str(file.content),
   externalUrl |-> Undefined,
   spineWidthInches |-> IF options.spineWidthInches.t \in {"number", "nan"}
                        THEN options.spineWidthInches ELSE Undefined,
   dpi |-> IF options.dpi.t \in {"number", "nan"} THEN options.dpi ELSE Undefined]

Ids(list) == {list[i].id : i \in DOMAIN list}
HasId(list, id) == id \in Ids(list)

\* Array.prototype.filter
RECURSIVE Filter(_, _)
Filter(list, id) ==
  IF list = <<>> THEN <<>>
  ELSE IF Head(list).id # id THEN <<Head(list)>> \o Filter(Tail(list), id)
       ELSE Filter(Tail(list), id)

\* Array.prototype.findIndex (0 when no record has the id; the code's -1)
FindIndex(list, id) ==
  IF HasId(list, id) THEN CHOOSE i \in DOMAIN list :
                            list[i].id = id /\ \A j \in 1..(i - 1) : list[j].id # id
  ELSE 0

\* { ...cover, ...updates }
Spread(r, u) == [f \in DOMAIN r |-> IF f \in DOMAIN u THEN u[f] ELSE r[f]]

(***************************************************************************)
(* Persistence Gateway (fileSystem.js).  localStorage holds the record     *)
(* list and, in the localStorage version, the image map as well; setItem   *)
(* throws QuotaExceededError when the stored entries would exceed the      *)
(* quota.  The IndexedDB version keeps the images in an object store with  *)
(* a quota of its own.                                                      *)
(***************************************************************************)
LsUsed(be, list, bl) == Len(list) + (IF be = "ls" THEN Cardinality(DOMAIN bl) ELSE 0)
SetItemThrows(be, list, bl) == LsUsed(be, list, bl) > LsQuota

\* saveMetadata: writes the list; a throwing setItem is caught, logged and
\* answered with `false`, leaving the stored list as it was.
saveMetadataOk(be, list, bl) == ~SetItemThrows(be, list, bl)
saveMetadata(be, meta, list, bl) ==
  IF saveMetadataOk(be, list, bl) THEN JsonList(list) ELSE meta

\* loadMetadata: JSON.parse(getItem(key) || '[]')
loadMetadata(meta) == meta

\* FileReader.readAsDataURL (localStorage version) and
\* readFileAsCompressedDataUrl (IndexedDB version: re-encoded as WebP)
DataUrl(be, file) ==
  [t |-> "dataurl", enc |-> IF be = "ls" THEN file.type ELSE "image/webp", v |-> file.content]

\* delete that leaves the entry in place
RemoveNothing(bl, id) == bl

Put(bl, id, data) == [x \in DOMAIN bl \cup {id} |-> IF x = id THEN data ELSE bl[x]]
Remove(bl, id) == [x \in DOMAIN bl \ {id} |-> bl[x]]
NoBlobs == [x \in {} |-> Null]

\* saveUploadedFile: "ok" when the image was stored, else the rejection
saveUploadedFileResult(be, meta, bl, file, id) ==
  IF be = "idb" /\ ~file.decodable THEN "Failed to decode image"
  ELSE IF be = "ls" /\ SetItemThrows(be, meta, Put(bl, id, DataUrl(be, file)))
         THEN "QuotaExceededError"
  ELSE IF be = "idb" /\ Cardinality(DOMAIN Put(bl, id, DataUrl(be, file))) > IdbQuota
         THEN "QuotaExceededError"
  ELSE "ok"

\* getFileDataUrl: covers[fileId]?.data || null
getFileDataUrl(bl, id) ==
  IF id \in DOMAIN bl /\ bl[id].t \notin {"undefined", "null", "nan"} THEN bl[id] ELSE Null

(***************************************************************************)
(* UploadComponent form state.                                             *)
(***************************************************************************)
InitialForm == [spineWidthInches |-> EmptyText, pageCount |-> EmptyText, isUploading |-> FALSE]

\* texts a user can leave in the spine-width input (thousandths of an inch)
SpineTexts == {EmptyText, NumText(0), NumText(842)}
\* texts a user can leave in the page-count input (thousandths of a page)
PageTexts == {EmptyText, NumText(0), NumText(1500)}

\* parseInt(text, 10): NaN for '', else the integer part
ParseInt(x) ==
  IF x.t = "text" THEN Num(IF x.v >= 0 THEN x.v \div 1000 ELSE -((-x.v) \div 1000)) ELSE NaN

\* (pages * 0.0025).toFixed(3), in thousandths.  pages * 0.0025 is an exact
\* multiple of 0.0005; for odd pages the decimal tie is decided by the
\* IEEE-754 double nearest to the product (1, 5, 7 round up; 3, 9 round down).
TieRoundsUp == {1, 5, 7}
ToFixed3(pages) ==
  IF pages % 2 = 0 THEN NumText((pages * 25) \div 10)
  ELSE NumText(((pages * 25) \div 10) + (IF pages \in TieRoundsUp THEN 1 ELSE 0))

\* UploadComponent.jsx processFile, lines 99-107: the spine text after the
\* optional derivation from the page count
SpineInches(seen) ==
  IF seen.spineWidthInches.t = "empty" /\ seen.pageCount.t # "empty"
     /\ IsFinite(ParseInt(seen.pageCount)) /\ ParseInt(seen.pageCount).v > 0
  THEN ToFixed3(ParseInt(seen.pageCount).v)
  ELSE seen.spineWidthInches

\* the spine validation without the `<= 0` test
SpineValidAnyNumber(seen) ==
  IsFinite(ParseFloat(SpineInches(seen)))

\* lines 108-111: the spine validation
SpineValid(seen) ==
  IsFinite(ParseFloat(SpineInches(seen))) /\ ParseFloat(SpineInches(seen)).v > 0

\* handleDrop is memoised with an empty dependency list, so the processFile
\* it calls is the one of the first render and reads the initial form state;
\* handleFileSelect is re-created on every render and reads the current one.
FormSeen(via) == IF via = "drop" THEN InitialForm ELSE form

\* line 105: setSpineWidthInches(spineInches), only when the width was derived
FormAfterDerive(seen) ==
  IF SpineInches(seen) # seen.spineWidthInches
  THEN [form EXCEPT !.spineWidthInches = SpineInches(seen)] ELSE form

Outcome(op, id, result) == [op |-> op, id |-> id, result |-> result]

(***************************************************************************)
(* Data initialisation (dataInit.js).                                      *)
(***************************************************************************)
\* initializeDataSystem, lines 24-49: seed the bundled covers when the
\* stored list is empty
SeededList(be, meta, bl) ==
  IF Len(loadMetadata(meta)) = 0 /\ Len(BundledEntries) > 0
  THEN saveMetadata(be, meta, BundledEntries, bl)
  ELSE meta

\* App mounts (first visit or reload): initializeDataSystem runs; every
\* suspended call of the previous page is gone and the form is fresh.
initializeDataSystem ==
  /\ metadata' = SeededList(backend, metadata, blobs)
  /\ app' = "loaded"
  /\ inflight' = <<>>
  /\ form' = InitialForm
  /\ last' = Outcome("initializeDataSystem", NoId, "ok")
  /\ UNCHANGED <<uiVars, hookVars, mapVars, libVars, backend, blobs, nextId>>

\* resetDataSystem: removes both localStorage keys, then initializes again
resetDataSystem ==
  /\ app = "loaded"
  /\ LET cleared == IF backend = "ls" THEN NoBlobs ELSE blobs
     IN /\ blobs' = cleared
        /\ metadata' = SeededList(backend, <<>>, cleared)
  /\ last' = Outcome("resetDataSystem", NoId, "ok")
  /\ UNCHANGED <<uiVars, hookVars, mapVars, libVars, backend, app, nextId, inflight, form>>

(***************************************************************************)
(* Cover Registry (coverData.js).                                          *)
(***************************************************************************)
\* field updates a caller may pass to updateCover
Updates == { [spineWidthInches |-> Num(0)] }

\* updateCover spreading the updates over every record
updateCoverAll(id, updates) ==
  /\ app = "loaded"
  /\ LET covers == loadMetadata(metadata)
         index == FindIndex(covers, id)
     IN IF index = 0
        THEN /\ last' = Outcome("updateCover", id, "Cover not found")
             /\ UNCHANGED metadata
        ELSE /\ metadata' = saveMetadata(backend, metadata,
                               [i \in DOMAIN covers |-> Spread(covers[i], updates)], blobs)
             /\ last' = Outcome("updateCover", id, "ok")
  /\ UNCHANGED <<uiVars, hookVars, mapVars, libVars, backend, app, blobs, nextId, inflight, form>>

\* updateCover, lines 73-85
updateCover(id, updates) ==
  /\ app = "loaded"
  /\ LET covers == loadMetadata(metadata)
         index == FindIndex(covers, id)
     IN IF index = 0
        THEN /\ last' = Outcome("updateCover", id, "Cover not found")
             /\ UNCHANGED metadata
        ELSE /\ metadata' = saveMetadata(backend, metadata,
                               [covers EXCEPT ![index] = Spread(covers[index], updates)], blobs)
             /\ last' = Outcome("updateCover", id, "ok")
  /\ UNCHANGED <<uiVars, hookVars, mapVars, libVars, backend, app, blobs, nextId, inflight, form>>

\* deleteCover without the length comparison: always writes, always succeeds
deleteCoverUnchecked(id) ==
  /\ app = "loaded"
  /\ metadata' = saveMetadata(backend, metadata, Filter(loadMetadata(metadata), id), blobs)
  /\ last' = Outcome("deleteCover", id, "ok")
  /\ UNCHANGED <<uiVars, hookVars, mapVars, libVars, backend, app, blobs, nextId, inflight, form>>

\* deleteCover, lines 90-100
deleteCover(id) ==
  /\ app = "loaded"
  /\ LET covers == loadMetadata(metadata)
         filteredCovers == Filter(covers, id)
     IN IF Len(filteredCovers) = Len(covers)
        THEN /\ last' = Outcome("deleteCover", id, "Cover not found")
             /\ UNCHANGED metadata
        ELSE /\ metadata' = saveMetadata(backend, metadata, filteredCovers, blobs)
             /\ last' = Outcome("deleteCover", id, "ok")
  /\ UNCHANGED <<uiVars, hookVars, mapVars, libVars, backend, app, blobs, nextId, inflight, form>>

\* clearAllCovers, lines 105-108
clearAllCovers ==
  /\ app = "loaded"
  /\ metadata' = saveMetadata(backend, metadata, <<>>, blobs)
  /\ last' = Outcome("clearAllCovers", NoId, "ok")
  /\ UNCHANGED <<uiVars, hookVars, mapVars, libVars, backend, app, blobs, nextId, inflight, form>>

\* deleteFile (fileSystem.js)
deleteFile(id) ==
  /\ app = "loaded"
  /\ blobs' = Remove(blobs, id)
  /\ last' = Outcome("deleteFile", id, "ok")
  /\ UNCHANGED <<uiVars, hookVars, mapVars, libVars, backend, app, metadata, nextId, inflight, form>>

\* clearAllFiles (fileSystem.js)
clearAllFiles ==
  /\ app = "loaded"
  /\ blobs' = NoBlobs
  /\ last' = Outcome("clearAllFiles", NoId, "ok")
  /\ UNCHANGED <<uiVars, hookVars, mapVars, libVars, backend, app, metadata, nextId, inflight, form>>

(***************************************************************************)
(* Upload (UploadComponent.jsx).                                           *)
(***************************************************************************)
\* the spine-width input's onChange
setSpineWidthInches(text) ==
  /\ app = "loaded" /\ ~form.isUploading
  /\ form' = [form EXCEPT !.spineWidthInches = text]
  /\ last' = Outcome("setSpineWidthInches", NoId, "ok")
  /\ UNCHANGED <<uiVars, hookVars, mapVars, libVars, backend, app, metadata, blobs, nextId, inflight>>

\* the page-count input's onChange, lines 277-285
setPageCount(text) ==
  /\ app = "loaded" /\ ~form.isUploading
  /\ form' = [form EXCEPT !.pageCount = text,
                          !.spineWidthInches =
                             IF IsFinite(ParseInt(text)) /\ ParseInt(text).v > 0
                             THEN ToFixed3(ParseInt(text).v) ELSE @]
  /\ last' = Outcome("setPageCount", NoId, "ok")
  /\ UNCHANGED <<uiVars, hookVars, mapVars, libVars, backend, app, metadata, blobs, nextId, inflight>>

\* processFile up to its first suspension: file validation, spine
\* derivation and validation, then addCover up to `await saveUploadedFile`.
\* A validation failure is caught at once and ends the handler.
processFile(file, via) ==
  /\ app = "loaded" /\ ~form.isUploading
  /\ LET seen == FormSeen(via)
     IN IF validateFile(file) # "valid"
        THEN /\ last' = Outcome("processFile", NoId, validateFile(file))
             /\ UNCHANGED <<form, inflight, nextId>>
        ELSE IF ~SpineValid(seen)
        THEN /\ last' = Outcome("processFile", NoId, "Spine width is required")
             /\ form' = FormAfterDerive(seen)
             /\ UNCHANGED <<inflight, nextId>>
        ELSE /\ nextId < MaxUploads
             /\ inflight' = << [covers |-> loadMetadata(metadata),
                                newCover |-> NewCover(generateFileId(nextId), file,
                                   [spineWidthInches |-> ParseFloat(SpineInches(seen)),
                                    dpi |-> Undefined]),
                                file |-> file] >>
             /\ nextId' = nextId + 1
             /\ form' = [FormAfterDerive(seen) EXCEPT !.isUploading = TRUE]
             /\ last' = Outcome("processFile", generateFileId(nextId), "pending")
  /\ UNCHANGED <<hookVars, mapVars, libVars, backend, app, metadata, blobs>>

\* The image write settles: addCover resumes after `await saveUploadedFile`
\* (lines 62-67) and processFile after `await addCover` (lines 116-135).
addCoverResume ==
  /\ inflight # <<>>
  /\ LET call == inflight[1]
         id == call.newCover.id
         saved == saveUploadedFileResult(backend, metadata, blobs, call.file, id)
         stored == Put(blobs, id, DataUrl(backend, call.file))
         covers == Append(call.covers, call.newCover)
     IN IF saved # "ok"
        THEN /\ last' = Outcome("addCover", id, saved)
             /\ form' = [form EXCEPT !.isUploading = FALSE]
             /\ UNCHANGED <<metadata, blobs>>
        ELSE /\ blobs' = stored
             /\ metadata' = saveMetadata(backend, metadata, covers, stored)
             /\ last' = Outcome("addCover", id, "ok")
             /\ form' = InitialForm
  /\ inflight' = <<>>
  /\ UNCHANGED <<hookVars, mapVars, libVars, backend, app, nextId>>

\* the two upload steps as the registry sees them: the selection and the
\* progress display of the page are not followed
fileOffered(file, via) == processFile(file, via) /\ UNCHANGED uiVars
addCoverSettles == addCoverResume /\ UNCHANGED uiVars

(***************************************************************************)
(* useCoverImageUrl (utils/useCoverImageUrl.js, lines 4-25).               *)
(***************************************************************************)
MaxEffects == 3      \* effect runs that start a lookup in one behaviour

Deferred == [t |-> "deferred", v |-> 0]

\* the coverId prop: a bundled cover, an uploaded cover or none selected
HookIds == {BundledId(1), CoverId(1), NoId}

\* getCoverById
getCoverById(list, id) ==
  IF HasId(list, id) THEN list[FindIndex(list, id)] ELSE Undefined

\* getCoverImageUrlByIdAsync up to its await: the record is looked up at
\* once; the localStorage getFileDataUrl answers at once too, the IndexedDB
\* one when its get request is served (Deferred).
LookupStart(be, list, bl, id) ==
  IF ~HasId(list, id) THEN Null
  ELSE IF getCoverById(list, id).externalUrl.t = "url" THEN getCoverById(list, id).externalUrl
  ELSE IF be = "ls" THEN getFileDataUrl(bl, id)
  ELSE Deferred

\* the value the lookup's promise resolves with
LookupResult(early, bl, id) ==
  IF early = Deferred THEN getFileDataUrl(bl, id) ELSE early

\* the effect's cleanup: cancelled = true in the closure of the latest effect
Cleanup(ls, cur) ==
  IF cur = 0 THEN ls ELSE [ls EXCEPT ![cur].cancelled = TRUE]

\* the effect body for a coverId, after the previous effect's cleanup ran
RunEffect(id) ==
  IF id = NoId
  THEN /\ url' = Null
       /\ current' = 0
       /\ lookups' = Cleanup(lookups, current)
  ELSE /\ Len(lookups) < MaxEffects
       /\ lookups' = Append(Cleanup(lookups, current),
                            [coverId |-> id, cancelled |-> FALSE, done |-> FALSE,
                             result |-> LookupStart(backend, loadMetadata(metadata), blobs, id)])
       /\ current' = Len(lookups) + 1
       /\ UNCHANGED url

\* the component mounts: useState(null), then the effect runs
Mount(id) ==
  /\ ~mounted /\ app = "loaded"
  /\ mounted' = TRUE
  /\ coverId' = id
  /\ RunEffect(id)
  /\ UNCHANGED <<uiVars, regVars, mapVars, libVars>>

\* a render with another coverId: cleanup of the previous effect, new effect
SetCoverId(id) ==
  /\ mounted /\ id # coverId
  /\ coverId' = id
  /\ RunEffect(id)
  /\ UNCHANGED <<uiVars, mounted, regVars, mapVars, libVars>>

\* the component unmounts: the cleanup runs, the state is dropped
Unmount ==
  /\ mounted
  /\ mounted' = FALSE
  /\ lookups' = Cleanup(lookups, current)
  /\ current' = 0
  /\ coverId' = NoId
  /\ url' = Null
  /\ UNCHANGED <<uiVars, regVars, mapVars, libVars>>

\* lines 14-17 applied without looking at the cancelled flag
ResolveLookupAlways(i) ==
  /\ i \in DOMAIN lookups /\ ~lookups[i].done
  /\ LET result == LookupResult(lookups[i].result, blobs, lookups[i].coverId)
     IN /\ lookups' = [lookups EXCEPT ![i].done = TRUE, ![i].result = result]
        /\ url' = IF mounted THEN result ELSE url
  /\ UNCHANGED <<uiVars, mounted, coverId, current, regVars, mapVars, libVars>>

\* lines 14-17: the awaited lookup i settles; its result is set as the url
\* unless the effect was cleaned up meanwhile (setUrl after unmount is a no-op)
ResolveLookup(i) ==
  /\ i \in DOMAIN lookups /\ ~lookups[i].done
  /\ LET result == LookupResult(lookups[i].result, blobs, lookups[i].coverId)
     IN /\ lookups' = [lookups EXCEPT ![i].done = TRUE, ![i].result = result]
        /\ url' = IF ~lookups[i].cancelled /\ mounted THEN result ELSE url
  /\ UNCHANGED <<uiVars, mounted, coverId, current, regVars, mapVars, libVars>>

NoHook ==
  /\ mounted = FALSE /\ coverId = NoId /\ url = Null /\ current = 0 /\ lookups = <<>>

(***************************************************************************)
(* Cover-to-geometry mapping (components/Book.jsx).  A texture coordinate  *)
(* is kept exact as an integer count of 1/unitX of the image width (1/unitY*)
(* of its height), so 5 / 10.842 is 5000 with unitX = 10842.               *)
(***************************************************************************)
Region(offsetX, repeatX, offsetY, repeatY) ==
  [offsetX |-> offsetX, repeatX |-> repeatX, offsetY |-> offsetY, repeatY |-> repeatY]
Regions(version, unitX, unitY, bleedX, front, spine, back) ==
  [version |-> version, unitX |-> unitX, unitY |-> unitY, bleedX |-> bleedX,
   front |-> front, spine |-> spine, back |-> back]
NoOutput == [version |-> "none"]

\* the wraparound image of the bundled cover, in thousandths of an inch
COVER_TOTAL_INCHES == 10842    \* 5 + 0.842 + 5
COVER_IMAGE_INCHES == 8250     \* 8.25
TRIM_WIDTH_INCHES == 5000      \* 5
SPINE_WIDTH_INCHES == 842      \* 0.842
BLEED_INCHES == 125            \* 0.125

\* Book.jsx lines 69-77 (first version): UV ranges
frontUVStart == 0
frontUVEnd == TRIM_WIDTH_INCHES
spineUVStart == frontUVEnd
spineUVEnd == TRIM_WIDTH_INCHES + SPINE_WIDTH_INCHES
backUVStart == spineUVEnd
backUVEnd == COVER_TOTAL_INCHES
BookRanges ==
  Regions("ranges", COVER_TOTAL_INCHES, 1, 0,
          Region(frontUVStart, frontUVEnd - frontUVStart, 0, 1),
          Region(spineUVStart, spineUVEnd - spineUVStart, 0, 1),
          Region(backUVStart, backUVEnd - backUVStart, 0, 1))

\* Book.jsx lines 189-206 (second version): UV widths
frontUVWidth == TRIM_WIDTH_INCHES
\* the spine band without its thousandths (0.84 / 10.842)
spineUVWidthTwoDecimals == 10 * (SPINE_WIDTH_INCHES \div 10)
spineUVWidth == SPINE_WIDTH_INCHES
backUVWidth == TRIM_WIDTH_INCHES
\* the back texture offset without the spine width
BookWidthsBackAtSpine ==
  Regions("widths", COVER_TOTAL_INCHES, 1, 0,
          Region(0, frontUVWidth, 0, 1),
          Region(frontUVWidth, spineUVWidth, 0, 1),
          Region(frontUVWidth, backUVWidth, 0, 1))
BookWidths ==
  Regions("widths", COVER_TOTAL_INCHES, 1, 0,
          Region(0, frontUVWidth, 0, 1),
          Region(frontUVWidth, spineUVWidth, 0, 1),
          Region(frontUVWidth + spineUVWidth, backUVWidth, 0, 1))

\* Book.jsx with bleed (lines 50-74 of that version)
BLEED_HORIZONTAL == BLEED_INCHES
BLEED_VERTICAL == BLEED_INCHES
frontWidth == TRIM_WIDTH_INCHES
frontWidthTrimmed == TRIM_WIDTH_INCHES - BLEED_INCHES
spineWidth == SPINE_WIDTH_INCHES
backWidthTrimmed == TRIM_WIDTH_INCHES - BLEED_INCHES
\* the bleed taken from both edges of the spine as well
BookBleedSpineTrimmed ==
  Regions("bleed", COVER_TOTAL_INCHES, COVER_IMAGE_INCHES, BLEED_HORIZONTAL,
          Region(BLEED_HORIZONTAL, frontWidthTrimmed,
                 BLEED_VERTICAL, COVER_IMAGE_INCHES - 2 * BLEED_VERTICAL),
          Region(frontWidth + BLEED_HORIZONTAL, spineWidth - 2 * BLEED_HORIZONTAL,
                 BLEED_VERTICAL, COVER_IMAGE_INCHES - 2 * BLEED_VERTICAL),
          Region(frontWidth + spineWidth, backWidthTrimmed,
                 BLEED_VERTICAL, COVER_IMAGE_INCHES - 2 * BLEED_VERTICAL))
BookBleed ==
  Regions("bleed", COVER_TOTAL_INCHES, COVER_IMAGE_INCHES, BLEED_HORIZONTAL,
          Region(BLEED_HORIZONTAL, frontWidthTrimmed,
                 BLEED_VERTICAL, COVER_IMAGE_INCHES - 2 * BLEED_VERTICAL),
          Region(frontWidth, spineWidth,
                 BLEED_VERTICAL, COVER_IMAGE_INCHES - 2 * BLEED_VERTICAL),
          Region(frontWidth + spineWidth, backWidthTrimmed,
                 BLEED_VERTICAL, COVER_IMAGE_INCHES - 2 * BLEED_VERTICAL))

\* The mapping for a cover record and a decoded image (specification 4.1).
\* Horizontal lengths are in 1/2000 pixel, vertical ones in 1/1000 pixel;
\* spineWidthInches and bleedInches are in thousandths of an inch.
Max(a, b) == IF a >= b THEN a ELSE b
spineWidthPx(in) == 2 * in.spineWidthInches * in.dpi
frontWidthPx(in) == Max(2000, (2000 * in.imagePixelWidth - spineWidthPx(in)) \div 2)
backWidthPx(in) == frontWidthPx(in)
bleedPxX(in) == 2 * in.bleedInches * in.dpi
bleedPxY(in) == in.bleedInches * in.dpi
Mapper(in) ==
  Regions("mapper", 2000 * in.imagePixelWidth, 1000 * in.imagePixelHeight, bleedPxX(in),
          Region(bleedPxX(in), frontWidthPx(in) - bleedPxX(in),
                 bleedPxY(in), 1000 * in.imagePixelHeight - 2 * bleedPxY(in)),
          Region(frontWidthPx(in), spineWidthPx(in),
                 bleedPxY(in), 1000 * in.imagePixelHeight - 2 * bleedPxY(in)),
          Region(frontWidthPx(in) + spineWidthPx(in), backWidthPx(in) - bleedPxX(in),
                 bleedPxY(in), 1000 * in.imagePixelHeight - 2 * bleedPxY(in)))

\* cover records and decoded image sizes given to the mapping
MapInputs ==
  [trimWidthInches : {5000}, trimHeightInches : {8000, 8500},
   spineWidthInches : {100, 842, 990, 2000}, dpi : {72, 100, 300},
   imagePixelWidth : {100, 150, 3253}, imagePixelHeight : {2475},
   bleedInches : {0, BLEED_INCHES}]

\* The boxes of the 3D book, in ten-thousandths of a scene unit.
Box(width, height, depth) == [width |-> width, height |-> height, depth |-> depth]
\* Book.jsx lines 13-18 (first version)
BOOK_WIDTH_1 == 16000     \* 1.6
BOOK_HEIGHT_1 == 10000    \* 1.0
\* Book.jsx lines 151-157 and the bleed version, lines 13-19
BOOK_HEIGHT == 16000      \* 1.6
BOOK_WIDTH == 10000       \* 1.0
SPINE_DEPTH == 1680       \* 0.168
\* specification 4.1, step 6, with the scale of the unit converter (0.2)
unitsPerInch == 2         \* ten-thousandths of a unit per thousandth of an inch
BoxDimensions(version, in) ==
  CASE version = "ranges" -> Box(BOOK_WIDTH_1, BOOK_HEIGHT_1, SPINE_DEPTH)
    [] version \in {"widths", "bleed"} -> Box(BOOK_WIDTH, BOOK_HEIGHT, SPINE_DEPTH)
    [] version = "mapper" -> Box(unitsPerInch * in.trimWidthInches, unitsPerInch * in.trimHeightInches,
                                 unitsPerInch * in.spineWidthInches)

UVRegions(version, in) ==
  CASE version = "ranges" -> BookRanges
    [] version = "widths" -> BookWidths
    [] version = "bleed" -> BookBleed
    [] version = "mapper" -> Mapper(in)
Output(version, in) ==
  [f \in DOMAIN UVRegions(version, in) \cup {"box"} |->
     IF f = "box" THEN BoxDimensions(version, in) ELSE UVRegions(version, in)[f]]

\* Book renders and derives the texture regions
Render(version) ==
  /\ mapOut' = Output(version, mapIn)
  /\ UNCHANGED <<uiVars, mapIn, regVars, hookVars, libVars>>

NoMapping ==
  /\ mapIn = [trimWidthInches |-> TRIM_WIDTH_INCHES, trimHeightInches |-> 8000,
              spineWidthInches |-> SPINE_WIDTH_INCHES, dpi |-> 300, imagePixelWidth |-> 3253,
              imagePixelHeight |-> 2475, bleedInches |-> 0]
  /\ mapOut = NoOutput

(***************************************************************************)
(* JavaScript numbers (IEEE 754 binary64, round to nearest, ties to even). *)
(* A natural number is the sequence of its base-8192 digits, lowest first, *)
(* without leading zeros; a positive double in the normal range is the     *)
(* record [m, e] for m * 2^e with m of exactly 53 bits.                    *)
(***************************************************************************)
Limb == 8192

RECURSIVE Norm(_)
Norm(a) == IF a # <<>> /\ a[Len(a)] = 0 THEN Norm(SubSeq(a, 1, Len(a) - 1)) ELSE a

\* a + b + c, and a - b - c for a >= b + c, digit by digit
RECURSIVE AddC(_, _, _)
AddC(a, b, c) ==
  IF a = <<>> /\ b = <<>> /\ c = 0 THEN <<>>
  ELSE LET x == (IF a = <<>> THEN 0 ELSE Head(a)) + (IF b = <<>> THEN 0 ELSE Head(b)) + c
       IN <<x % Limb>> \o AddC(IF a = <<>> THEN <<>> ELSE Tail(a),
                               IF b = <<>> THEN <<>> ELSE Tail(b), x \div Limb)
RECURSIVE SubC(_, _, _)
SubC(a, b, c) ==
  IF a = <<>> THEN <<>>
  ELSE LET x == Head(a) - (IF b = <<>> THEN 0 ELSE Head(b)) - c
       IN <<x % Limb>> \o SubC(Tail(a), IF b = <<>> THEN <<>> ELSE Tail(b),
                               IF x < 0 THEN 1 ELSE 0)

\* a * k + c for a digit k, and a * b
RECURSIVE MulC(_, _, _)
MulC(a, k, c) ==
  IF a = <<>> THEN AddC(<<>>, <<>>, c)
  ELSE <<(Head(a) * k + c) % Limb>> \o MulC(Tail(a), k, (Head(a) * k + c) \div Limb)
RECURSIVE Mul(_, _)
Mul(a, b) ==
  IF a = <<>> \/ b = <<>> THEN <<>>
  ELSE Norm(AddC(MulC(a, Head(b), 0), <<0>> \o Mul(a, Tail(b)), 0))

\* the number of bits of a, bit i of a, a * 2^s and a < b
BitLen(a) ==
  IF a = <<>> THEN 0
  ELSE 13 * (Len(a) - 1) + CHOOSE k \in 1..13 : 2 ^ (k - 1) <= a[Len(a)] /\ a[Len(a)] < 2 ^ k
Bit(a, i) ==
  IF (i \div 13) + 1 > Len(a) THEN 0 ELSE (a[(i \div 13) + 1] \div (2 ^ (i % 13))) % 2
Shl(a, s) ==
  IF a = <<>> THEN <<>>
  ELSE SubSeq(<<0, 0, 0, 0, 0, 0, 0, 0, 0, 0>>, 1, s \div 13) \o MulC(a, 2 ^ (s % 13), 0)
Less(a, b) ==
  IF Len(a) # Len(b) THEN Len(a) < Len(b)
  ELSE \E i \in 1..Len(a) : a[i] < b[i] /\ \A j \in (i + 1)..Len(a) : a[j] = b[j]

\* long division of n by d, one bit of n at a time from the highest bit
\* down: the bits hi down to lo, in chunks of 12 bits
DivStep(n, d, i, st) ==
  LET Step(r2) ==
        IF Less(r2, d)
        THEN [q |-> Shl(st.q, 1), r |-> r2]
        ELSE [q |-> AddC(Shl(st.q, 1), <<1>>, 0), r |-> Norm(SubC(r2, d, 0))]
  IN Step(AddC(Shl(st.r, 1), IF Bit(n, i) = 1 THEN <<1>> ELSE <<>>, 0))
RECURSIVE DivBits(_, _, _, _, _)
DivBits(n, d, hi, lo, st) ==
  LET Rest(s) == IF Len(s.q) >= 0 /\ Len(s.r) >= 0 THEN DivBits(n, d, hi - 1, lo, s) ELSE s
  IN IF hi < lo THEN st ELSE Rest(DivStep(n, d, hi, st))
RECURSIVE DivFrom(_, _, _, _)
DivFrom(n, d, i, st) ==
  LET lo == IF i - 11 > 0 THEN i - 11 ELSE 0
      Rest(s) == IF Len(s.q) >= 0 /\ Len(s.r) >= 0 THEN DivFrom(n, d, lo - 1, s) ELSE s
  IN IF i < 0 THEN st ELSE Rest(DivBits(n, d, i, lo, st))

\* the double nearest to n / d * 2^e: a quotient of 55 or 56 bits, of which
\* the lowest 2 or 3 are rounded away
RoundRatio(n, d, e) ==
  LET k == 55 + BitLen(d) - BitLen(n)
      zero == [q |-> <<>>, r |-> <<>>]
      Finish(m, ex) ==
        IF BitLen(m) > 53
        THEN [m |-> DivFrom(m, <<2>>, BitLen(m) - 1, zero).q, e |-> ex + 1]
        ELSE [m |-> m, e |-> ex]
      Round(cut, rest, drop) ==
        LET low == IF cut.r = <<>> THEN 0 ELSE cut.r[1]
            half == 2 ^ (drop - 1)
            up == low > half \/ (low = half /\ (rest # <<>> \/ Bit(cut.q, 0) = 1))
        IN Finish(IF up THEN AddC(cut.q, <<1>>, 0) ELSE cut.q, e - k + drop)
      Cut(qr) ==
        Round(DivFrom(qr.q, <<2 ^ (BitLen(qr.q) - 53)>>, BitLen(qr.q) - 1, zero),
              qr.r, BitLen(qr.q) - 53)
      Quotient(num, den) == Cut(DivFrom(num, den, BitLen(num) - 1, zero))
  IN Quotient(Shl(n, IF k > 0 THEN k ELSE 0), Shl(d, IF k < 0 THEN -k ELSE 0))

\* the decimal literal n / d
ToDouble(n, d) == RoundRatio(AddC(<<>>, <<>>, n), AddC(<<>>, <<>>, d), 0)

(***************************************************************************)
(* Unit conversion (utils/trimSizes.js).  The arguments and results are    *)
(* positive doubles in the normal range.                                    *)
(***************************************************************************)
Scale == ToDouble(2, 10)
inchesToUnitsQuarter(inches) ==
  RoundRatio(Mul(inches.m, ToDouble(25, 100).m), <<1>>, inches.e + ToDouble(25, 100).e)
inchesToUnits(inches) == RoundRatio(Mul(inches.m, Scale.m), <<1>>, inches.e + Scale.e)
unitsToInches(units) == RoundRatio(units.m, Scale.m, units.e - Scale.e)

(***************************************************************************)
(* Calls of the library functions.  A caller converts the length it has,   *)
(* given in thousandths, or the result of its previous conversion.         *)
(***************************************************************************)
Call(fn, arg, result) == [fn |-> fn, arg |-> arg, result |-> result]
Operands ==
  {ToDouble(libIn.x, 1000)} \cup (IF libOut = <<>> THEN {} ELSE {libOut[Len(libOut)].result})

callInchesToUnits ==
  /\ libIn.fn = "convert"
  /\ Len(libOut) < MaxCalls
  /\ \E x \in Operands :
       libOut' = Append(libOut, Call("inchesToUnits", x, inchesToUnits(x)))
  /\ UNCHANGED <<uiVars, libIn, regVars, hookVars, mapVars>>

callUnitsToInches ==
  /\ libIn.fn = "convert"
  /\ Len(libOut) < MaxCalls
  /\ \E x \in Operands :
       libOut' = Append(libOut, Call("unitsToInches", x, unitsToInches(x)))
  /\ UNCHANGED <<uiVars, libIn, regVars, hookVars, mapVars>>

(***************************************************************************)
(* The preset catalog (utils/trimSizes.js).  Widths, heights and the       *)
(* tolerance are in thousandths of an inch; the subtraction of two doubles *)
(* this close is exact, and at these values the comparison with the double *)
(* 0.01 decides as the comparison of the decimals does.                    *)
(***************************************************************************)
Preset(width, height, name) == [width |-> width, height |-> height, name |-> name]
TRIM_SIZE_PRESETS ==
  [fiction |-> <<Preset(4250, 6870, "Fiction 1"), Preset(5000, 8000, "Fiction 2"),
                 Preset(5250, 8000, "Fiction 3"), Preset(5500, 8500, "Fiction 4"),
                 Preset(6000, 9000, "Fiction 5")>>,
   children |-> <<Preset(7500, 7500, "Children 1"), Preset(7000, 10000, "Children 2"),
                  Preset(10000, 8000, "Children 3")>>,
   textbooks |-> <<Preset(6000, 9000, "Textbook 1"), Preset(7000, 10000, "Textbook 2"),
                   Preset(8500, 11000, "Textbook 3")>>,
   nonfiction |-> <<Preset(5500, 8500, "Non-fiction 1"), Preset(6000, 9000, "Non-fiction 2"),
                    Preset(7000, 10000, "Non-fiction 3")>>,
   memoir |-> <<Preset(5250, 8000, "Memoir 1"), Preset(5500, 8500, "Memoir 2")>>]
ALL_PRESETS ==
  TRIM_SIZE_PRESETS.fiction \o TRIM_SIZE_PRESETS.children \o TRIM_SIZE_PRESETS.textbooks
    \o TRIM_SIZE_PRESETS.nonfiction \o TRIM_SIZE_PRESETS.memoir

\* Math.abs(a - b) <= tolerance; false when an operand is NaN
WithinTolerance(a, b, tolerance) ==
  /\ b.t = "number"
  /\ tolerance.t = "number"
  /\ (IF a < b.v THEN b.v - a ELSE a - b.v) <= tolerance.v
MatchesWidth(preset, width, height, tolerance) ==
  WithinTolerance(preset.width, width, tolerance)
Matches(preset, width, height, tolerance) ==
  /\ WithinTolerance(preset.width, width, tolerance)
  /\ WithinTolerance(preset.height, height, tolerance)
\* Array.prototype.find: the first element that satisfies the test, or undefined
RECURSIVE Find(_, _, _, _)
Find(presets, width, height, tolerance) ==
  IF presets = <<>> THEN Undefined
  ELSE IF Matches(Head(presets), width, height, tolerance) THEN Head(presets)
  ELSE Find(Tail(presets), width, height, tolerance)
findPresetByDimensions(width, height, tolerance) ==
  Find(ALL_PRESETS, width, height,
       IF tolerance = Undefined THEN Num(10) ELSE tolerance)

callFindPresetByDimensions ==
  /\ libIn.fn = "findPresetByDimensions"
  /\ libOut = <<>>
  /\ libOut' = <<Call("findPresetByDimensions", libIn,
                      findPresetByDimensions(libIn.width, libIn.height, libIn.tolerance))>>
  /\ UNCHANGED <<uiVars, libIn, regVars, hookVars, mapVars>>

(***************************************************************************)
(* validateTrimSize (utils/trimSizes.js).  Its arguments are numbers       *)
(* written in hundred-thousandths of an inch, or NaN.                      *)
(***************************************************************************)
TRIM_SIZE_LIMITS_FivePlaces ==
  [MIN_WIDTH |-> 10000, MAX_WIDTH |-> 2000000,
   MIN_HEIGHT |-> 10000, MAX_HEIGHT |-> 2000000, DECIMAL_PLACES |-> 5]
TRIM_SIZE_LIMITS ==
  [MIN_WIDTH |-> 10000, MAX_WIDTH |-> 2000000,
   MIN_HEIGHT |-> 10000, MAX_HEIGHT |-> 2000000, DECIMAL_PLACES |-> 4]

\* (x.toString().split('.')[1] || '').length for n / 10^places: toString
\* writes the shortest decimal, without trailing zeros and without a point
\* for an integer
RECURSIVE FractionDigits(_, _)
FractionDigits(n, places) ==
  IF places = 0 \/ n % 10 # 0 THEN places ELSE FractionDigits(n \div 10, places - 1)

validateTrimSize(width, height) ==
  IF width.t # "number" \/ height.t # "number"
  THEN [valid |-> FALSE, errors |-> <<"Width and height must be valid numbers">>]
  ELSE LET widthDecimals == FractionDigits(width.v, 5)
           heightDecimals == FractionDigits(height.v, 5)
           errors ==
             (IF widthDecimals > TRIM_SIZE_LIMITS.DECIMAL_PLACES
              THEN <<"Width can have at most 4 decimal places">> ELSE <<>>)
             \o (IF heightDecimals > TRIM_SIZE_LIMITS.DECIMAL_PLACES
                 THEN <<"Height can have at most 4 decimal places">> ELSE <<>>)
             \o (IF width.v < TRIM_SIZE_LIMITS.MIN_WIDTH \/ width.v > TRIM_SIZE_LIMITS.MAX_WIDTH
                 THEN <<"Width must be between 0.1\" and 20\"">> ELSE <<>>)
             \o (IF height.v < TRIM_SIZE_LIMITS.MIN_HEIGHT \/ height.v > TRIM_SIZE_LIMITS.MAX_HEIGHT
                 THEN <<"Height must be between 0.1\" and 20\"">> ELSE <<>>)
       IN [valid |-> Len(errors) = 0, errors |-> errors]

callValidateTrimSize ==
  /\ libIn.fn = "validateTrimSize"
  /\ libOut = <<>>
  /\ libOut' = <<Call("validateTrimSize", libIn, validateTrimSize(libIn.width, libIn.height))>>
  /\ UNCHANGED <<uiVars, libIn, regVars, hookVars, mapVars>>

(***************************************************************************)
(* validateFile (utils/fileSystem.js) called on its own, and the upload    *)
(* handlers given the same file.                                            *)
(***************************************************************************)
callValidateFile ==
  /\ libIn.fn = "validateFile"
  /\ libOut = <<>>
  /\ libOut' = <<Call("validateFile", libIn, validateFile(libIn.file))>>
  /\ UNCHANGED <<uiVars, libIn, regVars, hookVars, mapVars>>

\* handleDrop and handleFileSelect: processFile(files[0]) when a file came
selectFile(via) ==
  /\ libIn.fn = "validateFile"
  /\ libIn.file # Null
  /\ fileOffered(libIn.file, via)

\* the arguments of the calls: lengths in thousandths, trim sizes in
\* thousandths (catalog lookup) and hundred-thousandths (validation), files
LibInputs ==
  {[fn |-> "convert", x |-> n] : n \in {7, 842, 3000, 5000, 5500, 8000, 8500}}
  \cup
  [fn : {"findPresetByDimensions"},
   width : {Num(4250), Num(5000), Num(5011), Num(5125), Num(5510), Num(6000), NaN},
   height : {Num(6870), Num(8000), Num(8490), Num(8511), Num(9000)},
   tolerance : {Undefined, Num(0), Num(250)}]
  \cup
  [fn : {"validateTrimSize"},
   width : {NaN, Num(-100000), Num(9999), Num(10000), Num(512340), Num(512345),
            Num(550000), Num(2000000), Num(2000010), Num(2012345)},
   height : {NaN, Num(5000), Num(800000), Num(800001), Num(2500000)}]
  \cup
  [fn : {"validateFile"},
   file : Files \cup {Null, File(MaxFileSize + 1, "image/gif", TRUE, 2),
                      File(0, "image/jpg", TRUE, 2), File(4096, "image/webp", TRUE, 3)}]

NoLib ==
  /\ libIn = [fn |-> "none"]
  /\ libOut = <<>>

(***************************************************************************)
(* Cover selection (components/UI.jsx) and the upload progress display     *)
(* (components/UploadComponent.jsx).                                       *)
(***************************************************************************)
MaxTimers == 2       \* selection timers pending at once
MaxIntervals == 2    \* progress intervals running at once

\* the page before UI has rendered
NoUi ==
  /\ selectedCoverId = NoId /\ loading = FALSE /\ timers = <<>>
  /\ uploadedCovers = <<>> /\ uploadProgress = 0 /\ intervals = 0

\* UI.jsx handleCoverChange, called with the id of a rendered thumbnail
\* (line 300) or by the arrows: nothing for the selected cover, else the
\* loading indicator goes on and a 300 ms timer is started
handleCoverChange(id) ==
  /\ app = "loaded" /\ HasId(uploadedCovers, id)
  /\ IF id = selectedCoverId
     THEN UNCHANGED <<loading, timers>>
     ELSE /\ Len(timers) < MaxTimers
          /\ loading' = TRUE
          /\ timers' = Append(timers, id)
  /\ last' = Outcome("handleCoverChange", id, "ok")
  /\ UNCHANGED <<backend, app, metadata, blobs, nextId, inflight, form>>
  /\ UNCHANGED <<hookVars, mapVars, libVars, selectedCoverId, uploadedCovers,
                 uploadProgress, intervals>>

\* UI.jsx handleNextCover: the record after the selected one, wrapping round
handleNextCover ==
  /\ Len(uploadedCovers) # 0
  /\ handleCoverChange(
       uploadedCovers[(FindIndex(uploadedCovers, selectedCoverId) % Len(uploadedCovers)) + 1].id)

\* UI.jsx handlePreviousCover: the record before the selected one, the last
\* one from the first; with no selected record the index is -2 and the
\* handler throws before it changes anything
handlePreviousCover ==
  /\ Len(uploadedCovers) # 0
  /\ FindIndex(uploadedCovers, selectedCoverId) # 0
  /\ handleCoverChange(
       uploadedCovers[IF FindIndex(uploadedCovers, selectedCoverId) = 1
                      THEN Len(uploadedCovers)
                      ELSE FindIndex(uploadedCovers, selectedCoverId) - 1].id)

\* UI.jsx lines 171-174: the oldest pending timer fires (equal delays fire
\* in the order they were started)
selectionTimer ==
  /\ timers # <<>>
  /\ selectedCoverId' = Head(timers)
  /\ loading' = FALSE
  /\ timers' = Tail(timers)
  /\ UNCHANGED <<regVars, hookVars, mapVars, libVars, uploadedCovers, uploadProgress, intervals>>

\* UploadComponent.jsx lines 80-88: one tick of a running progress interval
progressInterval ==
  /\ intervals > 0
  /\ IF uploadProgress >= 90
     THEN uploadProgress' = 90 /\ intervals' = intervals - 1
     ELSE uploadProgress' = uploadProgress + 10 /\ UNCHANGED intervals
  /\ UNCHANGED <<regVars, hookVars, mapVars, libVars, selectedCoverId, loading, timers,
                 uploadedCovers>>

\* processFile with its progress display, up to its first suspension:
\* setUploadProgress(0); a file that passes validateFile starts the interval
\* (line 80) before the spine is looked at; the catch and finally blocks of
\* a failed validation set the progress to 0 and clear no interval
uploadStart(file, via) ==
  /\ processFile(file, via)
  /\ uploadProgress' = 0
  /\ IF validateFile(file) # "valid"
     THEN UNCHANGED intervals
     ELSE intervals < MaxIntervals /\ intervals' = intervals + 1
  /\ UNCHANGED <<selectedCoverId, loading, timers, uploadedCovers>>

\* processFile after `await addCover`: on success setUploadProgress(100),
\* clearInterval and UI.jsx handleUploadSuccess (the list is read again, the
\* new cover is selected at once); then finally: setUploadProgress(0)
uploadSettle ==
  /\ addCoverResume
  /\ uploadProgress' = 0
  /\ IF last'.result = "ok"
     THEN /\ intervals' = intervals - 1
          /\ uploadedCovers' = loadMetadata(metadata')
          /\ selectedCoverId' = last'.id
     ELSE UNCHANGED <<intervals, uploadedCovers, selectedCoverId>>
  /\ UNCHANGED <<loading, timers>>

(***************************************************************************)
(* The interface specification: a loaded app showing its covers; the user  *)
(* clicks thumbnails and arrows and uploads files while timers run.        *)
(***************************************************************************)
UiInit ==
  /\ backend \in {"ls", "idb"}
  /\ app = "loaded"
  /\ metadata = SeededList(backend, <<>>, NoBlobs)
  /\ blobs = NoBlobs
  /\ nextId = 0
  /\ inflight = <<>>
  /\ form \in {InitialForm, [InitialForm EXCEPT !.spineWidthInches = NumText(842)]}
  /\ last = Outcome("initializeDataSystem", NoId, "ok")
  /\ NoHook
  /\ NoMapping
  /\ NoLib
  /\ uploadedCovers = loadMetadata(metadata)
  /\ selectedCoverId = IF Len(uploadedCovers) > 0 THEN uploadedCovers[1].id ELSE NoId
  /\ loading = FALSE /\ timers = <<>> /\ uploadProgress = 0 /\ intervals = 0

UiNext ==
  \/ \E id \in AllIds : handleCoverChange(id)
  \/ handleNextCover
  \/ handlePreviousCover
  \/ selectionTimer
  \/ progressInterval
  \/ \E f \in Files, via \in {"drop", "picker"} : uploadStart(f, via)
  \/ uploadSettle

UiSpec == UiInit /\ [][UiNext]_vars

(***************************************************************************)
(* The registry specification: one browser tab, either persistence         *)
(* backend, any order of page loads, form edits, uploads and registry      *)
(* calls.                                                                   *)
(***************************************************************************)
Init ==
  /\ backend \in {"ls", "idb"}
  /\ app = "unloaded"
  /\ metadata = <<>>
  /\ blobs = NoBlobs
  /\ nextId = 0
  /\ inflight = <<>>
  /\ form = InitialForm
  /\ last = Outcome("none", NoId, "ok")
  /\ NoHook
  /\ NoMapping
  /\ NoLib
  /\ NoUi

Next ==
  \/ initializeDataSystem
  \/ resetDataSystem
  \/ \E id \in AllIds, u \in Updates : updateCover(id, u)
  \/ \E id \in AllIds : deleteCover(id)
  \/ clearAllCovers
  \/ \E id \in AllIds : deleteFile(id)
  \/ clearAllFiles
  \/ \E t \in SpineTexts : setSpineWidthInches(t)
  \/ \E t \in PageTexts : setPageCount(t)
  \/ \E f \in Files, via \in {"drop", "picker"} : fileOffered(f, via)
  \/ addCoverSettles

Spec == Init /\ [][Next]_vars

(***************************************************************************)
(* The hook specification: a loaded app whose list holds the bundled cover *)
(* and one uploaded cover; the selection changes, lookups settle in any    *)
(* order and records or images are deleted meanwhile.                       *)
(***************************************************************************)
UploadedRecord ==
  NewCover(CoverId(1), File(MaxFileSize, "image/png", TRUE, 1),
           [spineWidthInches |-> Num(SPINE_WIDTH_INCHES), dpi |-> Undefined])

HookInit ==
  /\ backend \in {"ls", "idb"}
  /\ app = "loaded"
  /\ metadata = JsonList(BundledEntries \o <<UploadedRecord>>)
  /\ blobs = Put(NoBlobs, CoverId(1), DataUrl(backend, File(MaxFileSize, "image/png", TRUE, 1)))
  /\ nextId = 1
  /\ inflight = <<>>
  /\ form = InitialForm
  /\ last = Outcome("addCover", CoverId(1), "ok")
  /\ NoHook
  /\ NoMapping
  /\ NoLib
  /\ NoUi

HookNext ==
  \/ \E id \in HookIds : Mount(id)
  \/ \E id \in HookIds : SetCoverId(id)
  \/ Unmount
  \/ \E i \in 1..MaxEffects : ResolveLookup(i)
  \/ \E id \in AllIds : deleteCover(id)
  \/ \E id \in AllIds : deleteFile(id)

HookSpec == HookInit /\ [][HookNext]_vars

(***************************************************************************)
(* The mapping specification: any cover record and image size, rendered by *)
(* any version of Book.                                                     *)
(***************************************************************************)
MapperInit ==
  /\ backend \in {"ls", "idb"}
  /\ app = "unloaded"
  /\ metadata = <<>>
  /\ blobs = NoBlobs
  /\ nextId = 0
  /\ inflight = <<>>
  /\ form = InitialForm
  /\ last = Outcome("none", NoId, "ok")
  /\ NoHook
  /\ mapIn \in MapInputs
  /\ mapOut = NoOutput
  /\ NoLib
  /\ NoUi

MapperNext ==
  \E version \in {"ranges", "widths", "bleed", "mapper"} : Render(version)

MapperSpec == MapperInit /\ [][MapperNext]_vars

(***************************************************************************)
(* The library specification: a loaded app and any arguments, given to the *)
(* pure functions of trimSizes.js and fileSystem.js and, for a file, to    *)
(* the upload handlers.                                                     *)
(***************************************************************************)
LibInit ==
  /\ backend \in {"ls", "idb"}
  /\ app = "loaded"
  /\ metadata = SeededList(backend, <<>>, NoBlobs)
  /\ blobs = NoBlobs
  /\ nextId = 0
  /\ inflight = <<>>
  /\ form \in {InitialForm, [InitialForm EXCEPT !.spineWidthInches = NumText(842)]}
  /\ last = Outcome("initializeDataSystem", NoId, "ok")
  /\ NoHook
  /\ NoMapping
  /\ libIn \in LibInputs
  /\ libOut = <<>>
  /\ NoUi

LibNext ==
  \/ callInchesToUnits
  \/ callUnitsToInches
  \/ callFindPresetByDimensions
  \/ callValidateTrimSize
  \/ callValidateFile
  \/ \E via \in {"drop", "picker"} : selectFile(via)
  \/ addCoverSettles

LibSpec == LibInit /\ [][LibNext]_vars

(***************************************************************************)
(* Properties of the registry specification.                               *)
(***************************************************************************)
Records(list) == {list[i] : i \in DOMAIN list}
ValidationErrors ==
  { "File size must be less than 10MB", "File must be PNG, JPG, JPEG, or WebP",
    "Spine width is required" }
UsableSpine(text) == text.t = "text" /\ text.v > 0
ValidPageCount(text) == text.t = "text" /\ text.v >= 1000

\* C1: deleteCover(id) with an id that is not in the persisted list fails
\* with 'Cover not found' and leaves the list exactly as it was.
C1_DeleteMissingFails ==
  [][(last'.op = "deleteCover" /\ ~HasId(metadata, last'.id))
       => (last'.result = "Cover not found" /\ metadata' = metadata)]_vars

C1_Witness ==
  /\ last.op = "deleteCover" /\ last.result = "Cover not found"
  /\ Len(metadata) >= 1 /\ ~HasId(metadata, last.id)

C3_SpineAlwaysUsable ==
  \A i \in DOMAIN metadata :
     metadata[i].spineWidthInches.t = "number" /\ metadata[i].spineWidthInches.v > 0

\* C4: an addCover that resumes after its await adds its own record and
\* keeps what the operations that ran in between did to the list: no
\* record they removed comes back, no record they added or changed is lost.
C4_NoLostUpdate ==
  [][(last'.op = "addCover" /\ last'.result = "ok")
       => ({r \in Records(metadata') : r.id # last'.id} = Records(metadata))]_vars

C7_WriteFailurePropagates ==
  (last.op = "addCover" /\ last.result = "ok") => HasId(metadata, last.id)

\* C8: updateCover(id, updates) with an absent id fails with 'Cover not
\* found' and leaves the list unchanged; with a present id it changes that
\* record only.
C8_UpdateOnlyTarget ==
  [][(last'.op = "updateCover")
       => IF ~HasId(metadata, last'.id)
          THEN last'.result = "Cover not found" /\ metadata' = metadata
          ELSE /\ last'.result = "ok"
               /\ Len(metadata') = Len(metadata)
               /\ \A i \in DOMAIN metadata :
                     /\ metadata'[i].id = metadata[i].id
                     /\ metadata[i].id # last'.id => metadata'[i] = metadata[i]]_vars

C8_Witness ==
  /\ last.op = "updateCover" /\ last.result = "ok"
  /\ \E i, j \in DOMAIN metadata :
        /\ metadata[i].id = last.id /\ metadata[i].spineWidthInches = Num(0)
        /\ metadata[j].id # last.id /\ metadata[j].spineWidthInches # Num(0)

(***************************************************************************)
(* Properties of the hook specification.                                   *)
(***************************************************************************)
\* C5: the result of a lookup whose effect was cleaned up (the coverId
\* changed or the hook unmounted while it was pending) is never written to
\* url, in whatever order the pending lookups settle.
C5_CancelledDiscarded ==
  [][\A i \in DOMAIN lookups :
        (lookups[i].cancelled /\ ~lookups[i].done /\ lookups'[i].done) => url' = url]_vars

C5_Witness ==
  \E i \in DOMAIN lookups :
     /\ lookups[i].done /\ lookups[i].cancelled /\ lookups[i].result # Null
     /\ mounted /\ coverId # lookups[i].coverId /\ url # lookups[i].result

(***************************************************************************)
(* Properties of the mapping specification.                                *)
(***************************************************************************)
Disjoint(a, b) ==
  \/ a.offsetX + a.repeatX <= b.offsetX
  \/ b.offsetX + b.repeatX <= a.offsetX
ValidMapInput(in) ==
  /\ in.spineWidthInches > 0 /\ in.dpi > 0 /\ in.imagePixelWidth > 0
  /\ in.imagePixelHeight > 0 /\ in.bleedInches >= 0
  /\ in.spineWidthInches * in.dpi < 1000 * in.imagePixelWidth

\* C9: for valid inputs with spineWidthInches * dpi < imagePixelWidth the
\* front, spine and back regions are pairwise non-overlapping on the
\* wraparound axis and their horizontal repeats sum to at most 1.
C9_RegionsDisjoint ==
  (mapOut # NoOutput /\ (mapOut.version = "mapper" => ValidMapInput(mapIn)))
    => /\ Disjoint(mapOut.front, mapOut.spine)
       /\ Disjoint(mapOut.spine, mapOut.back)
       /\ Disjoint(mapOut.front, mapOut.back)
       /\ mapOut.front.repeatX + mapOut.spine.repeatX + mapOut.back.repeatX <= mapOut.unitX

\* C10: the horizontal order is front, spine, back: the front offset is 0
\* before bleed trimming, the spine offset is the front fraction and the
\* back offset is the front fraction plus the spine fraction.
C10_RegionOrder ==
  mapOut # NoOutput
    => /\ mapOut.front.offsetX - mapOut.bleedX = 0
       /\ mapOut.spine.offsetX = mapOut.front.repeatX + mapOut.bleedX
       /\ mapOut.back.offsetX = mapOut.front.repeatX + mapOut.bleedX + mapOut.spine.repeatX

C10_Witness ==
  /\ mapOut # NoOutput /\ mapOut.version = "widths"
  /\ mapOut.spine.offsetX > 0 /\ mapOut.back.offsetX > mapOut.spine.offsetX

\* C11: the regions tile the image: the spine starts where the front ends,
\* the back starts where the spine ends, and front, spine and back together
\* span the image width less the bleed trimmed from the two outer edges.
C11_CoversImage ==
  mapOut # NoOutput
    => /\ mapOut.front.offsetX + mapOut.front.repeatX = mapOut.spine.offsetX
       /\ mapOut.spine.offsetX + mapOut.spine.repeatX = mapOut.back.offsetX
       /\ mapOut.front.offsetX = mapOut.bleedX
       /\ mapOut.back.offsetX + mapOut.back.repeatX = mapOut.unitX - mapOut.bleedX

\* the regions b with bleed trimming against the regions n without it
BleedTrim(b, n) ==
  /\ b.unitX = n.unitX
  /\ b.front.repeatX < n.front.repeatX /\ b.back.repeatX < n.back.repeatX
  /\ b.front.offsetX + b.front.repeatX = n.front.offsetX + n.front.repeatX
  /\ b.back.offsetX = n.back.offsetX
  /\ b.spine.repeatX = n.spine.repeatX /\ b.spine.offsetX = n.spine.offsetX
  /\ \A r \in {"front", "spine", "back"} :
        /\ n[r].offsetY = 0 /\ n[r].repeatY = n.unitY
        /\ b[r].offsetY > 0 /\ b[r].offsetY = b.front.offsetY
        /\ b[r].repeatY = b.unitY - 2 * b[r].offsetY

\* C12: with bleed trimming the front and back repeats are strictly smaller
\* than without and only their outer edges move; the spine's horizontal
\* repeat and offset are the same; every region's vertical offset is the
\* vertical bleed fraction and its vertical repeat 1 - 2 * that fraction.
C12_BleedTrimsOuterEdges ==
  /\ mapOut.version = "bleed" => BleedTrim(mapOut, BookWidths)
  /\ (mapOut.version = "mapper" /\ mapIn.bleedInches > 0)
       => BleedTrim(mapOut, Mapper([mapIn EXCEPT !.bleedInches = 0]))

C12_Witness ==
  /\ mapOut.version = "bleed"
  /\ mapOut.front.repeatX = TRIM_WIDTH_INCHES - BLEED_INCHES
  /\ mapOut.spine.repeatX = SPINE_WIDTH_INCHES

\* the scenario of the specification: 5 x 8 trim, 0.842 spine, 300 dpi,
\* 3253 x 2475 pixels, no bleed
Scenario ==
  [trimWidthInches |-> 5000, trimHeightInches |-> 8000,
   spineWidthInches |-> 842, dpi |-> 300, imagePixelWidth |-> 3253,
   imagePixelHeight |-> 2475, bleedInches |-> 0]
\* r / u is within one ten-thousandth of t / 10000 (r and u are multiples of k)
Near(r, u, k, t) ==
  /\ (t - 1) * (u \div k) < 10000 * (r \div k)
  /\ 10000 * (r \div k) < (t + 1) * (u \div k)

\* C13: for the scenario the spine is 252.6 pixels wide, front and back
\* 1500.2 pixels each, the repeats are 1500.2/3253 (about 0.4611),
\* 252.6/3253 (about 0.0777) and 1500.2/3253, and they sum to exactly 1.
C13_Scenario ==
  /\ (mapOut.version = "mapper" /\ mapIn = Scenario)
       => /\ mapOut.unitX = 2000 * 3253
          /\ mapOut.spine.repeatX = 505200          \* 252.6 pixels
          /\ mapOut.front.repeatX = 3000400         \* 1500.2 pixels
          /\ mapOut.back.repeatX = 3000400
          /\ Near(mapOut.front.repeatX, mapOut.unitX, 200, 4611)
          /\ Near(mapOut.spine.repeatX, mapOut.unitX, 200, 777)
          /\ mapOut.front.repeatX + mapOut.spine.repeatX + mapOut.back.repeatX
               = mapOut.unitX
  /\ (mapOut.version = "widths" /\ mapIn = Scenario)
       => /\ Near(mapOut.front.repeatX, mapOut.unitX, 1, 4611)
          /\ Near(mapOut.spine.repeatX, mapOut.unitX, 1, 777)
          /\ Near(mapOut.back.repeatX, mapOut.unitX, 1, 4611)
          /\ mapOut.front.repeatX + mapOut.spine.repeatX + mapOut.back.repeatX
               = mapOut.unitX

C13_Witness ==
  /\ mapOut.version = "mapper" /\ mapIn = Scenario
  /\ mapOut.spine.offsetX = 3000400

\* C14: for every input the front and back pixel widths are equal and at
\* least one pixel, and no front or back region has a width of zero or less.
C14_FrontBackAtLeastOnePixel ==
  mapOut.version = "mapper"
    => /\ mapOut.front.repeatX + mapOut.bleedX = mapOut.back.repeatX + mapOut.bleedX
       /\ mapOut.front.repeatX + mapOut.bleedX >= 2000
       /\ mapOut.front.repeatX > 0 /\ mapOut.back.repeatX > 0

\* C15: for every cover the boxes are the trim dimensions times 0.2 units
\* per inch, width and height not swapped: box width = 0.2 * trim width,
\* box height = 0.2 * trim height, spine depth = 0.2 * spine width.
C15_BoxDimensions ==
  mapOut # NoOutput
    => /\ mapOut.box.width = 2 * mapIn.trimWidthInches
       /\ mapOut.box.height = 2 * mapIn.trimHeightInches
       /\ mapOut.box.depth = 2 * mapIn.spineWidthInches

(***************************************************************************)
(* Properties of the library specification.                                *)
(***************************************************************************)
\* call i + 1 converts the result of call i back
RoundTrip(i) ==
  /\ libOut[i + 1].arg = libOut[i].result
  /\ libOut[i + 1].fn # libOut[i].fn

\* |z - x| <= x * 2^-51 for doubles z and x
Close(z, x) ==
  LET e == IF z.e < x.e THEN z.e ELSE x.e
      zs == Shl(z.m, z.e - e)
      xs == Shl(x.m, x.e - e)
      diff == Norm(IF Less(zs, xs) THEN SubC(xs, zs, 0) ELSE SubC(zs, xs, 0))
  IN ~Less(xs, Shl(diff, 51))

Candidates(c) ==
  LET tolerance == IF c.arg.tolerance = Undefined THEN 10 ELSE c.arg.tolerance.v
      Near1(a, b) == b.t = "number" /\ a - b.v <= tolerance /\ b.v - a <= tolerance
  IN {i \in 1..Len(ALL_PRESETS) :
        /\ Near1(ALL_PRESETS[i].width, c.arg.width)
        /\ Near1(ALL_PRESETS[i].height, c.arg.height)}

\* C17: findPresetByDimensions returns none when no catalog preset has both
\* dimensions within the tolerance (default 0.01 inch), otherwise the first
\* such preset in catalog order; dimensions equal to a catalog entry match.
C17_FirstPresetWithinTolerance ==
  \A k \in 1..Len(libOut) :
    libOut[k].fn = "findPresetByDimensions"
      => LET c == libOut[k]
         IN /\ Candidates(c) = {} => c.result = Undefined
            /\ Candidates(c) # {}
                 => \E i \in Candidates(c) :
                      /\ c.result = ALL_PRESETS[i]
                      /\ \A j \in Candidates(c) : i <= j
            /\ (\E i \in 1..Len(ALL_PRESETS) :
                  /\ c.arg.width = Num(ALL_PRESETS[i].width)
                  /\ c.arg.height = Num(ALL_PRESETS[i].height))
                 => /\ c.result # Undefined
                    /\ Num(c.result.width) = c.arg.width
                    /\ Num(c.result.height) = c.arg.height

C17_Witness ==
  /\ Len(libOut) = 1
  /\ libOut[1].fn = "findPresetByDimensions"
  /\ libOut[1].arg.width = Num(5510)
  /\ libOut[1].arg.height = Num(8490)
  /\ libOut[1].arg.tolerance = Undefined
  /\ libOut[1].result = Preset(5500, 8500, "Fiction 4")

\* the rules of validateTrimSize a call's arguments violate
ViolatedRules(c) ==
  {rule \in {"width places", "height places", "width range", "height range"} :
     \/ rule = "width places" /\ c.arg.width.v % 10 # 0
     \/ rule = "height places" /\ c.arg.height.v % 10 # 0
     \/ rule = "width range" /\ ~(10000 <= c.arg.width.v /\ c.arg.width.v <= 2000000)
     \/ rule = "height range" /\ ~(10000 <= c.arg.height.v /\ c.arg.height.v <= 2000000)}

\* C18: validateTrimSize returns valid exactly when both values are numbers
\* within [0.1, 20.0] written with at most 4 decimal places; otherwise it
\* returns one reason per violated rule, and the single reason 'must be valid
\* numbers' when a value is not a number.
C18_ValidateTrimSize ==
  \A k \in 1..Len(libOut) :
    libOut[k].fn = "validateTrimSize"
      => LET c == libOut[k]
         IN IF c.arg.width = NaN \/ c.arg.height = NaN
            THEN /\ c.result.valid = FALSE
                 /\ c.result.errors = <<"Width and height must be valid numbers">>
            ELSE /\ c.result.valid = (ViolatedRules(c) = {})
                 /\ Len(c.result.errors) = Cardinality(ViolatedRules(c))
                 /\ \A i, j \in 1..Len(c.result.errors) :
                      i # j => c.result.errors[i] # c.result.errors[j]

C18_Witness ==
  /\ Len(libOut) = 1
  /\ libOut[1].fn = "validateTrimSize"
  /\ libOut[1].arg.width = Num(512345)
  /\ libOut[1].arg.height = Num(2500000)
  /\ libOut[1].result.valid = FALSE
  /\ Len(libOut[1].result.errors) = 2

\* the file of a call is missing, too large or of another type
Rejected(file) ==
  \/ file = Null
  \/ file.size > 10 * 1024 * 1024
  \/ file.type \notin {"image/png", "image/jpg", "image/jpeg", "image/webp"}
Reason(file) ==
  IF file = Null THEN "No file selected"
  ELSE IF file.size > 10 * 1024 * 1024 THEN "File size must be less than 10MB"
  ELSE "File must be PNG, JPG, JPEG, or WebP"
ValidateFileContract ==
  \A k \in 1..Len(libOut) :
    libOut[k].fn = "validateFile"
      => /\ (libOut[k].result = "valid") = ~Rejected(libOut[k].arg.file)
         /\ Rejected(libOut[k].arg.file) => libOut[k].result = Reason(libOut[k].arg.file)
RejectedFileWritesNothing ==
  (/\ libIn.fn = "validateFile"
   /\ libOut' = libOut
   /\ last'.op = "processFile"
   /\ Rejected(libIn.file))
    => /\ last'.result = Reason(libIn.file)
       /\ UNCHANGED <<metadata, blobs, inflight, nextId>>

\* C19: validateFile accepts a file exactly when it is present, at most
\* 10 MB and PNG, JPEG or WebP, and otherwise gives one reason in the order
\* missing, size, type; processFile writes nothing for a rejected file.
C19_ValidateFile == []ValidateFileContract /\ [][RejectedFileWritesNothing]_vars

C19_Witness ==
  /\ Len(libOut) = 1
  /\ libOut[1].fn = "validateFile"
  /\ libOut[1].arg.file = File(MaxFileSize + 1, "image/gif", TRUE, 2)
  /\ libOut[1].result = "File size must be less than 10MB"
  /\ last = Outcome("processFile", NoId, "File size must be less than 10MB")
  /\ blobs = NoBlobs

(***************************************************************************)
(* Record identifiers.                                                      *)
(***************************************************************************)
UniqueIds ==
  \A i, j \in 1..Len(metadata) : metadata[i].id = metadata[j].id => i = j
\* The id belonged to a record that is gone: the first page load seeds every
\* bundled cover, so on a loaded app a bundled id outside the list was
\* removed; an upload id that was handed out and is neither in the list nor
\* with the addCover call in flight was removed or never saved.
Retired(id) ==
  /\ ~HasId(metadata, id)
  /\ \/ id \in BundledIds /\ app = "loaded"
     \/ /\ id \in UploadIds /\ id.n <= nextId
        /\ \A i \in 1..Len(inflight) : inflight[i].newCover.id # id

\* C20: no two records of the persisted list share an id, and the id of a
\* removed record is never given to a record created later.
C20_IdsUniqueNeverReused ==
  [][/\ UniqueIds'
     /\ \A id \in AllIds : Retired(id) => ~HasId(metadata', id)]_vars

(***************************************************************************)
(* Ownership and order of the persisted list.                               *)
(***************************************************************************)
\* C21: the persisted record list is changed only by the Cover Registry
\* operations addCover, updateCover, deleteCover and clearAllCovers.
C21_RegistryIsSoleWriter ==
  [][metadata' # metadata
       => last'.op \in {"addCover", "updateCover", "deleteCover", "clearAllCovers"}]_vars

\* C22: the localStorage store and the IndexedDB store agree after each call
\* on which ids have retrievable image data: a save that settles stores the
\* image in one exactly when the other, given the same call in the same
\* state, stores it.
C22_BackendsAgree ==
  [][(last'.op = "addCover" /\ inflight # <<>>)
       => LET call == inflight[1]
              other == IF backend = "ls" THEN "idb" ELSE "ls"
          IN (getFileDataUrl(blobs', call.newCover.id) # Null)
               = (saveUploadedFileResult(other, metadata, blobs, call.file,
                                         call.newCover.id) = "ok")]_vars

\* the records of a list other than the one with the id, in their order
Others(list, id) == SelectSeq(list, LAMBDA r : r.id # id)

\* C23: a successful addCover appends exactly one record at the end of the
\* persisted list and leaves the existing records unchanged and in order;
\* updateCover and deleteCover keep the relative order of the other records.
C23_AppendAndOrder ==
  [][/\ (last'.op = "addCover" /\ last'.result = "ok" /\ inflight # <<>>)
          => /\ Len(metadata') = Len(metadata) + 1
             /\ SubSeq(metadata', 1, Len(metadata)) = metadata
             /\ metadata'[Len(metadata')].id = last'.id
     /\ (last'.op \in {"updateCover", "deleteCover"} /\ last'.result = "ok")
          => Others(metadata', last'.id) = Others(metadata, last'.id)]_vars

\* C24: initializeDataSystem seeds the bundled covers on the first run only;
\* a later run (the app was loaded before) leaves the persisted list as it is.
C24_SeedsOnFirstRunOnly ==
  [][(app = "loaded" /\ last'.op = "initializeDataSystem") => metadata' = metadata]_vars


\* C25: processFile uses a directly entered positive spine width as it is,
\* whatever the page count; it derives the width from the page count only
\* when no usable width is entered and the page count is a positive integer,
\* and the derived width is positive and passes the spine validation.
FileRejections ==
  {"No file selected", "File size must be less than 10MB",
   "File must be PNG, JPG, JPEG, or WebP"}
C25_SpineEnteredOrDerived ==
  [][(last'.op = "processFile" /\ last'.result \notin FileRejections
        /\ nextId < MaxUploads)
       => /\ UsableSpine(form.spineWidthInches)
               => /\ inflight' # <<>>
                  /\ inflight'[1].newCover.spineWidthInches
                       = ParseFloat(form.spineWidthInches)
          /\ (~UsableSpine(form.spineWidthInches) /\ ValidPageCount(form.pageCount)
                /\ form.spineWidthInches.t = "empty")
               => /\ inflight' # <<>>
                  /\ inflight'[1].newCover.spineWidthInches
                       = ParseFloat(ToFixed3(ParseInt(form.pageCount).v))
                  /\ inflight'[1].newCover.spineWidthInches.v > 0]_vars

\* C26: stored image data never outlives its record: after deleteCover(id)
\* or clearAllCovers has completed, getFileDataUrl is null for every record
\* it removed.
C26_BlobsDieWithRecords ==
  [][(last'.op \in {"deleteCover", "clearAllCovers"} /\ last'.result = "ok")
       => \A id \in Ids(metadata) \ Ids(metadata') :
             getFileDataUrl(blobs', id) = Null]_vars

\* C27: the url the hook returns is null or the image URL of the coverId
\* selected now (the result of a lookup made for that coverId), never the
\* URL of a cover selected before, also while the new lookup is pending.
C27_UrlOfSelectedCover ==
  (mounted /\ url # Null)
    => \E i \in DOMAIN lookups :
          lookups[i].coverId = coverId /\ lookups[i].done /\ lookups[i].result = url

(***************************************************************************)
(* Properties of the interface specification.                              *)
(***************************************************************************)
\* C28: once every pending 300 ms selection timer has fired, the selected
\* cover is the one the most recent user action asked for (a thumbnail
\* click, next or previous, a successful upload), and the loading indicator
\* is off only when no selection change is pending.
C28_LatestSelectionWins ==
  /\ (/\ timers = <<>>
      /\ \/ last.op = "handleCoverChange"
         \/ (last.op = "addCover" /\ last.result = "ok"))
       => selectedCoverId = last.id
  /\ ~loading => timers = <<>>

\* C29: when processFile has finished, with success or with any failure,
\* isUploading is false, the progress shown is 0 and no simulated-progress
\* interval is running; the progress never exceeds 90 while an upload is
\* in flight.
C29_UploadStateReset ==
  /\ inflight = <<>> => (~form.isUploading /\ uploadProgress = 0 /\ intervals = 0)
  /\ inflight # <<>> => uploadProgress <= 90

\* C30: a dropped file is processed exactly like a file chosen through the
\* picker: with the form state of the moment, whatever the drop does to the
\* page the picker would have done with the same file.
C30_DropLikePicker ==
  [][\A f \in Files : fileOffered(f, "drop") => fileOffered(f, "picker")]_vars

====
